---------------------------- MODULE Spec2Model ----------------------------
(***************************************************************************)
(* A model of kmlconverter.py (class KMLToWPMLConverter): the inference of *)
(* per-waypoint actions from a KML placemark, the extraction of the        *)
(* waypoint sequence of a KML document, the generation of the wayline and  *)
(* template documents, the packaging of both into a .kmz archive and the   *)
(* batch loop over a directory.                                            *)
(*                                                                         *)
(* Conventions.                                                            *)
(*  - Python None is the empty tuple <<>>, a present value v is <<v>>.     *)
(*  - The text of an XML element is a string; "" stands for the None that  *)
(*    ElementTree gives for an element without text.                       *)
(*  - Python floats are integers here: the numeric texts of the model's    *)
(*    inputs are decimal literals of integral value.                       *)
(*  - An exception travelling up the call stack is the record              *)
(*    [exception |-> <class name>].                                        *)
(***************************************************************************)
EXTENDS Integers, Sequences, FiniteSets, TLC

VARIABLES
  placemark,        \* the placemark element handed to extract_waypoint_actions
  actions,          \* what extract_waypoint_actions gave for it (NotCalled before)
  mode,             \* "single" (convert_kml_to_wpml from main) or "batch"
  listing,          \* os.listdir(input_dir): files [name, kml]; the one input file
                    \* in single mode
  device,           \* the device key (drone_type)
  kml_files,        \* batch_convert's kml_files
  file_no,          \* the file being converted: kml_files[file_no]
  pc,               \* where the program is
  extracted,        \* convert_kml_to_wpml's locals: waypoints,
  wpml_content,     \* wpml_content
  template_content, \* and template_content
  result,           \* what convert_kml_to_wpml returned (None before it returns)
  successful,       \* batch_convert's counters
  failed,
  fs,               \* the output directory: file name -> archive
  clock,            \* the last reading of the system clock
  attempted,        \* history: the files handed to convert_kml_to_wpml, in order
  generated         \* history: the document pairs generated, with their inputs

harness == <<placemark, actions>>
program == <<mode, listing, device, kml_files, file_no, pc, extracted, wpml_content,
             template_content, result, successful, failed, fs, clock, attempted,
             generated>>
vars == <<harness, program>>

None == <<>>
Some(v) == <<v>>
NotCalled == [called |-> FALSE]

Raise(e) == [exception |-> e]
Raised(r) == "exception" \in DOMAIN r

---------------------------------------------------------------------------
(* Python's str operations, computed on the characters.                    *)

Char(s, i) == SubSeq(s, i, i)
Rest(s) == SubSeq(s, 2, Len(s))

UpperCase == "ABCDEFGHIJKLMNOPQRSTUVWXYZ"
LowerCase == "abcdefghijklmnopqrstuvwxyz"
Digits == "0123456789"

LowerChar(c) ==
  IF \E k \in 1..Len(UpperCase) : Char(UpperCase, k) = c
  THEN Char(LowerCase, CHOOSE k \in 1..Len(UpperCase) : Char(UpperCase, k) = c)
  ELSE c

RECURSIVE LowerFrom(_, _)
LowerFrom(s, i) ==
  IF i > Len(s) THEN "" ELSE LowerChar(Char(s, i)) \o LowerFrom(s, i + 1)

\* str.lower()
Lower(s) == LowerFrom(s, 1)

\* `sub in s`
Contains(sub, s) ==
  \E i \in 1..(Len(s) - Len(sub) + 1) : SubSeq(s, i, i + Len(sub) - 1) = sub

IsSpace(c) == c \in {" ", "\n", "\t", "\r"}

RECURSIVE LStrip(_)
LStrip(s) == IF s # "" /\ IsSpace(Char(s, 1)) THEN LStrip(Rest(s)) ELSE s

RECURSIVE RStrip(_)
RStrip(s) ==
  IF s # "" /\ IsSpace(Char(s, Len(s))) THEN RStrip(SubSeq(s, 1, Len(s) - 1)) ELSE s

\* str.strip()
Strip(s) == RStrip(LStrip(s))

\* str.split(sep) for a one-character separator
RECURSIVE Split(_, _)
Split(s, sep) ==
  IF \E i \in 1..Len(s) : Char(s, i) = sep
  THEN LET i == CHOOSE k \in 1..Len(s) :
                  Char(s, k) = sep /\ \A j \in 1..(k - 1) : Char(s, j) # sep
       IN  <<SubSeq(s, 1, i - 1)>> \o Split(SubSeq(s, i + 1, Len(s)), sep)
  ELSE <<s>>

IsDigit(c) == \E d \in 1..Len(Digits) : Char(Digits, d) = c
DigitValue(c) == (CHOOSE d \in 1..Len(Digits) : Char(Digits, d) = c) - 1

\* str.isdigit()
isdigit(s) == s # "" /\ \A i \in 1..Len(s) : IsDigit(Char(s, i))

\* int(s) of a string of digits
RECURSIVE int(_)
int(s) ==
  IF s = "" THEN 0
  ELSE 10 * int(SubSeq(s, 1, Len(s) - 1)) + DigitValue(Char(s, Len(s)))

\* The literals float() takes, among the texts of the model: surrounding white
\* space, an optional sign, digits, and an optional fraction of zeros.
Unsigned(s) == IF s # "" /\ Char(s, 1) \in {"+", "-"} THEN Rest(s) ELSE s
IntegerPart(s) == Split(s, ".")[1]
IsZeros(s) == \A i \in 1..Len(s) : Char(s, i) = "0"

IsFloatBody(parts) ==
  /\ isdigit(parts[1])
  /\ Len(parts) <= 2
  /\ Len(parts) = 2 => IsZeros(parts[2])

is_float(text) == IsFloatBody(Split(Unsigned(Strip(text)), "."))

Signed(t, magnitude) == IF Char(t, 1) = "-" THEN 0 - magnitude ELSE magnitude

\* float(text), for a text that is_float
float(text) == Signed(Strip(text), int(IntegerPart(Unsigned(Strip(text)))))

---------------------------------------------------------------------------
(* XML elements of a placemark.  A placemark is                            *)
(*   [ns, geometry, name, coordinates, description, before, extended, after]*)
(* ns: the element is in the KML namespace (then so are its KML children); *)
(* name, coordinates, description: None or Some(text);                     *)
(* extended: None or Some(the elements under ExtendedData, document order);*)
(* before, after: the vendor elements that are direct children of the      *)
(* placemark, ahead of and behind ExtendedData.                            *)
(* An element is [ns, tag, text, param, name, value]: its namespace ("kml",*)
(* "mis" for www.dji.com, "other"), local tag, text, param attribute (None *)
(* when absent), name attribute and, for a Data element, its value child.  *)

Elem(ns, tag, text, param) ==
  [ns |-> ns, tag |-> tag, text |-> text, param |-> param, name |-> None, value |-> None]
Data(name, value) ==
  [ns |-> "kml", tag |-> "Data", text |-> "", param |-> None, name |-> Some(name),
   value |-> value]

\* dict.get / Element.get with a default
Get(d, key, default) == IF key \in DOMAIN d THEN d[key] ELSE default
Attr(a, default) == IF a = None THEN default ELSE a[1]

\* a for loop (lines 127, 169, 181, 186, 195, 200, 207, 250, 302, 311 of
\* kmlconverter.py): Op is one turn of it, acc what the turns so far have left
RECURSIVE FoldLeft(_, _, _)
FoldLeft(Op(_, _), acc, seq) ==
  IF seq = <<>> THEN acc ELSE FoldLeft(Op, Op(acc, Head(seq)), Tail(seq))

---------------------------------------------------------------------------
(* extract_waypoint_actions: the four signal sources, applied in the order *)
(* of the code to one dictionary; each step takes the dictionary so far (or*)
(* the exception already raised) and gives the next.                       *)

DefaultActions ==
  [stop_at_waypoint |-> TRUE, photo_action |-> None, video_action |-> None,
   speed |-> 5, heading_mode |-> "smoothTransition", heading |-> None,
   gimbal_pitch |-> -90, hovering_time |-> 0]

\* placemark_elem.find('.//kml:description', ns): only a description in the KML
\* namespace is found
FindDescription(pm) == IF pm.ns THEN pm.description ELSE None

\* placemark_elem.find('.//kml:ExtendedData', ns)
FindExtendedData(pm) == IF pm.ns THEN pm.extended ELSE None

\* every descendant of the placemark, in document order
Descendants(pm) ==
  pm.before \o (IF pm.extended = None THEN <<>> ELSE pm.extended[1]) \o pm.after

\* placemark_elem.findall('.//mis:<tag>', {'mis': 'www.dji.com'})
FindAllMis(pm, tag) ==
  SelectSeq(Descendants(pm), LAMBDA e : e.ns = "mis" /\ e.tag = tag)

\* lines 108-113: what the stop/continuous keywords say, None for no keyword
StopKeyword(desc_text) ==
  IF Contains("continuous", desc_text) \/ Contains("continuo", desc_text)
  THEN Some(FALSE)
  ELSE IF \/ Contains("stop", desc_text)
          \/ Contains("parada", desc_text)
          \/ Contains("hover", desc_text)
       THEN Some(TRUE)
       ELSE None

SetStop(a, keyword) ==
  IF keyword # None THEN [a EXCEPT !.stop_at_waypoint = keyword[1]] ELSE a

\* lines 116-121
SetCamera(a, desc_text) ==
  IF Contains("photo", desc_text) \/ Contains("foto", desc_text)
  THEN [a EXCEPT !.photo_action = Some("single")]
  ELSE IF Contains("video", desc_text)
       THEN [a EXCEPT !.video_action =
               Some(IF Contains("start", desc_text) THEN "start" ELSE "record")]
       ELSE a

\* lines 105-121, desc_text = description.text.lower()
ScanDescriptionText(a, desc_text) ==
  SetCamera(SetStop(a, StopKeyword(desc_text)), desc_text)

TextOf(elem) == IF elem = None THEN "" ELSE elem[1]

\* lines 103-121
ScanDescription(a, pm) ==
  IF TextOf(FindDescription(pm)) # ""
  THEN ScanDescriptionText(a, Lower(TextOf(FindDescription(pm))))
  ELSE a

\* the pointType branches (lines 130-136 and 187-193)
SetPointType(a, text) ==
  IF Lower(text) = "linestop" THEN [a EXCEPT !.stop_at_waypoint = TRUE]
  ELSE IF Lower(text) = "line" THEN [a EXCEPT !.stop_at_waypoint = FALSE]
  ELSE a

\* actions[field] = float(text)
SetFloat(a, field, text) ==
  IF is_float(text) THEN [a EXCEPT ![field] = float(text)] ELSE Raise("ValueError")

\* actions[field] = float(text) for the Optional heading
SetHeading(a, text) ==
  IF is_float(text) THEN [a EXCEPT !.heading = Some(float(text))] ELSE Raise("ValueError")

\* int(param) if param.isdigit() else 1000
HoverParam(param) == IF isdigit(param) THEN int(param) ELSE 1000

\* lines 154-165: the action kinds of the generic scan
SetAction(a, action_type, param) ==
  IF action_type = "ShootPhoto" THEN [a EXCEPT !.photo_action = Some("single")]
  ELSE IF action_type = "Hovering" THEN [a EXCEPT !.hovering_time = HoverParam(param)]
  ELSE IF action_type = "StartRecord" THEN [a EXCEPT !.video_action = Some("start")]
  ELSE IF action_type = "StopRecord" THEN [a EXCEPT !.video_action = Some("stop")]
  ELSE a

\* one turn of the loop over extended_data.iter() (lines 127-165)
ScanExtendedElem(a, elem) ==
  IF Raised(a) THEN a
  ELSE IF elem.tag = "pointType" /\ elem.text # "" THEN SetPointType(a, elem.text)
  ELSE IF elem.tag = "speed" /\ elem.text # "" THEN SetFloat(a, "speed", elem.text)
  ELSE IF elem.tag = "heading" /\ elem.text # "" THEN SetHeading(a, elem.text)
  ELSE IF elem.tag = "gimbalPitch" /\ elem.text # ""
       THEN SetFloat(a, "gimbal_pitch", elem.text)
  ELSE IF elem.tag = "actions" THEN SetAction(a, elem.text, Attr(elem.param, "0"))
  ELSE a

\* lines 124-165
ScanExtendedData(a, pm) ==
  IF FindExtendedData(pm) # None
  THEN FoldLeft(ScanExtendedElem, a, FindExtendedData(pm)[1])
  ELSE a

\* lines 173-178: the action kinds of the mis scan
SetMisAction(a, action_type, param) ==
  IF action_type = "ShootPhoto" THEN [a EXCEPT !.photo_action = Some("single")]
  ELSE IF action_type = "Hovering" THEN [a EXCEPT !.hovering_time = HoverParam(param)]
  ELSE a

\* one turn of the loop over mis:actions (lines 169-178)
ScanMisAction(a, mis_elem) ==
  IF Raised(a) THEN a
  ELSE SetMisAction(a, mis_elem.text, Attr(mis_elem.param, "0"))

ScanMisSpeed(a, e) ==
  IF Raised(a) \/ e.text = "" THEN a ELSE SetFloat(a, "speed", e.text)
ScanMisPointType(a, e) ==
  IF Raised(a) \/ e.text = "" THEN a ELSE SetPointType(a, e.text)
ScanMisGimbalPitch(a, e) ==
  IF Raised(a) \/ e.text = "" THEN a ELSE SetFloat(a, "gimbal_pitch", e.text)
ScanMisHeading(a, e) ==
  IF Raised(a) \/ e.text = "" THEN a ELSE SetHeading(a, e.text)

\* lines 168-203: the five loops over the mis namespace, in the code's order
ScanMis(a, pm) ==
  FoldLeft(ScanMisHeading,
    FoldLeft(ScanMisGimbalPitch,
      FoldLeft(ScanMisPointType,
        FoldLeft(ScanMisSpeed,
          FoldLeft(ScanMisAction, a, FindAllMis(pm, "actions")),
          FindAllMis(pm, "speed")),
        FindAllMis(pm, "pointType")),
      FindAllMis(pm, "gimbalPitch")),
    FindAllMis(pm, "heading"))

\* lines 211-217
SetData(a, name_attr, text) ==
  IF name_attr = "speed" THEN SetFloat(a, "speed", text)
  ELSE IF name_attr = "action" /\ Contains("continuous", Lower(text))
  THEN [a EXCEPT !.stop_at_waypoint = FALSE]
  ELSE a

\* one turn of the loop over kml:Data (lines 207-217)
ScanDataElem(a, data) ==
  IF Raised(a) THEN a
  ELSE IF TextOf(data.value) # ""
  THEN SetData(a, Lower(Attr(data.name, "")), TextOf(data.value))
  ELSE a

\* lines 206-217
ScanData(a, pm) ==
  IF FindExtendedData(pm) # None
  THEN FoldLeft(ScanDataElem, a,
                SelectSeq(FindExtendedData(pm)[1],
                          LAMBDA e : e.ns = "kml" /\ e.tag = "Data"))
  ELSE a

\* The dictionary returned, or the exception raised.
\* the same scans with the mis elements read before the ExtendedData scan
extract_waypoint_actions_mis_first(pm) ==
  ScanData(ScanExtendedData(ScanMis(ScanDescription(DefaultActions, pm), pm), pm), pm)

extract_waypoint_actions(pm) ==
  ScanData(ScanMis(ScanExtendedData(ScanDescription(DefaultActions, pm), pm), pm), pm)

---------------------------------------------------------------------------
(* The placemarks extract_waypoint_actions is applied to.                  *)

MaxExtended == 2    \* elements under ExtendedData

SeqsUpTo(S, n) == UNION {[1..k -> S] : k \in 0..n}

DescriptionInputs ==
  {None, Some("STOP here"), Some("Continuous photo"), Some("vuelo continuo, stop"),
   Some("video"), Some("Start VIDEO")}

ExtendedInputs ==
  {Elem("mis", "pointType", "LineStop", None),
   Elem("other", "pointType", "Line", None),
   Elem("mis", "speed", "8", None),
   Elem("other", "speed", "fast", None),
   Elem("other", "heading", "90", None),
   Elem("mis", "gimbalPitch", "-45", None),
   Elem("other", "actions", "ShootPhoto", None),
   Elem("other", "actions", "Hovering", Some("2s")),
   Elem("other", "actions", "StopRecord", None),
   Data("Speed", Some("3")),
   Data("action", Some("Continuous flight"))}

DirectInputs ==
  {Elem("mis", "pointType", "Line", None),
   Elem("mis", "pointType", "LineStop", None),
   Elem("mis", "speed", "2", None),
   Elem("mis", "heading", "north", None),
   Elem("mis", "actions", "Hovering", Some("500")),
   Elem("mis", "actions", "Hovering", Some(" 500")),
   Elem("mis", "actions", "shootphoto", None),
   Elem("mis", "actions", "StartRecord", None)}

PointPlacemark(ns, name, coordinates, description, extended, after) ==
  [ns |-> ns, geometry |-> "Point", name |-> name, coordinates |-> coordinates,
   description |-> description, before |-> <<>>, extended |-> extended,
   after |-> after]

\* Placemarks of a document that declares the KML namespace, and of one that
\* declares none.
PlacemarkInputs ==
  {PointPlacemark(TRUE, Some("WP"), Some("10,20,30"), d, x, <<>>) :
     d \in DescriptionInputs,
     x \in {None} \cup {Some(e) : e \in SeqsUpTo(ExtendedInputs, MaxExtended)}}
  \cup
  {PointPlacemark(TRUE, Some("WP"), Some("10,20,30"), d, x, after) :
     d \in DescriptionInputs,
     x \in {None} \cup {Some(e) : e \in SeqsUpTo(ExtendedInputs, 1)},
     after \in SeqsUpTo(DirectInputs, 1)}
  \cup
  {PointPlacemark(FALSE, Some("WP"), Some("10,20,30"), d, x, after) :
     d \in DescriptionInputs,
     x \in {None} \cup {Some(e) : e \in SeqsUpTo(ExtendedInputs, 1)},
     after \in SeqsUpTo(DirectInputs, 1)}

---------------------------------------------------------------------------
(* extract_coordinates_from_kml.  A KML file is [well_formed, features]:   *)
(* whether ET.parse accepts it, and its Placemark elements in document     *)
(* order, each with a Point, a LineString or no geometry.                  *)

\* root.findall('.//kml:X', ns), and './/X' when that finds nothing
FindAllEitherNamespace(elems) ==
  IF SelectSeq(elems, LAMBDA e : e.ns) # <<>>
  THEN SelectSeq(elems, LAMBDA e : e.ns)
  ELSE SelectSeq(elems, LAMBDA e : ~e.ns)

Waypoint(name, lon, lat, alt, index, acts) ==
  [name |-> name, longitude |-> lon, latitude |-> lat, altitude |-> alt,
   index |-> index, actions |-> acts]

\* lines 273-287, coords = first_coord.split(','): the ValueError of a float() is
\* caught at line 289 and the placemark is passed over
AppendPoint(waypoints, pm, coords, acts) ==
  IF Len(coords) >= 2
  THEN IF /\ is_float(Strip(coords[1]))
          /\ is_float(Strip(coords[2]))
          /\ (Len(coords) > 2 /\ Strip(coords[3]) # "") => is_float(Strip(coords[3]))
       THEN Append(waypoints,
              Waypoint(IF pm.name # None THEN pm.name[1]
                       ELSE "Waypoint_" \o ToString(Len(waypoints) + 1),
                       float(Strip(coords[1])),
                       float(Strip(coords[2])),
                       IF Len(coords) > 2 /\ Strip(coords[3]) # ""
                       THEN float(Strip(coords[3])) ELSE 50,
                       Len(waypoints),
                       acts))
       ELSE waypoints
  ELSE waypoints

\* lines 268-272: only the first line of the text is read
ParsePointCoordinates(waypoints, pm, coord_text, acts) ==
  AppendPoint(waypoints, pm, Split(Strip(Split(coord_text, "\n")[1]), ","), acts)

\* The state of the function's body: the list waypoints, or the exception raised.
Running(waypoints) == [waypoints |-> waypoints]

\* lines 264-292, once the actions are extracted
PointWaypoint(acc, pm, acts) ==
  IF Raised(acts) THEN acts
  ELSE Running(ParsePointCoordinates(acc.waypoints, pm, Strip(pm.coordinates[1]), acts))

\* one turn of the loop over point_placemarks (lines 250-292)
PointPlacemarkStep(acc, pm) ==
  IF Raised(acc) THEN acc
  ELSE IF pm.coordinates = None THEN acc
  ELSE IF pm.coordinates[1] = "" THEN Raise("AttributeError")  \* None.strip()
  ELSE PointWaypoint(acc, pm, extract_waypoint_actions(pm))

LineStringActions == [stop_at_waypoint |-> FALSE, speed |-> 5]

\* lines 314-324, coords = line.split(','), i the enumerate counter
AppendLinePoint(waypoints, i, coords) ==
  IF /\ is_float(coords[1])
     /\ is_float(coords[2])
     /\ Len(coords) > 2 => is_float(coords[3])
  THEN [waypoints |->
          Append(waypoints,
            Waypoint("Waypoint_" \o ToString(i + 1),
                     float(coords[1]),
                     float(coords[2]),
                     IF Len(coords) > 2 THEN float(coords[3]) ELSE 50,
                     i,
                     LineStringActions)),
        i |-> i + 1]
  ELSE Raise("ValueError")

\* lines 312-315, line = line.strip()
ParseLine(acc, line) ==
  IF line # "" /\ Len(Split(line, ",")) >= 2
  THEN AppendLinePoint(acc.waypoints, acc.i, Split(line, ","))
  ELSE [acc EXCEPT !.i = acc.i + 1]

\* one turn of the loop over enumerate(coord_lines) (lines 311-325); the
\* accumulator is the waypoints so far and the enumerate counter i
LineStep(acc, raw_line) == IF Raised(acc) THEN acc ELSE ParseLine(acc, Strip(raw_line))

\* the end of the loop over the lines of one LineString
EndOfLines(lines) == IF Raised(lines) THEN lines ELSE Running(lines.waypoints)

\* one turn of the loop over linestrings (lines 302-325)
LineStringStep(acc, linestring) ==
  IF Raised(acc) THEN acc
  ELSE IF linestring.coordinates = None THEN acc
  ELSE IF linestring.coordinates[1] = "" THEN Raise("AttributeError")
  ELSE EndOfLines(FoldLeft(LineStep, [waypoints |-> acc.waypoints, i |-> 0],
                           Split(Strip(linestring.coordinates[1]), "\n")))

\* lines 294-325: `if not waypoints`, the LineStrings are read
LineStringFallback(points, kml) ==
  IF ~Raised(points) /\ points.waypoints = <<>>
  THEN FoldLeft(LineStringStep, points,
                FindAllEitherNamespace(
                  SelectSeq(kml.features, LAMBDA f : f.geometry = "LineString")))
  ELSE points

\* lines 235-246
PointPlacemarks(kml) ==
  SelectSeq(FindAllEitherNamespace(kml.features), LAMBDA pm : pm.geometry = "Point")

\* lines 226-328, inside the try
ExtractBody(kml) ==
  IF ~kml.well_formed THEN Raise("ParseError")
  ELSE LineStringFallback(
         FoldLeft(PointPlacemarkStep, Running(<<>>), PointPlacemarks(kml)), kml)

\* The built-in exception classes below Exception that the model raises.
ExceptionClasses ==
  {"ValueError", "IndexError", "KeyError", "AttributeError", "ParseError",
   "ZeroDivisionError", "OSError"}

\* a handler that takes the parse errors only
ExceptParseErrors(r) ==
  Raised(r) /\ r.exception \in {"ValueError", "IndexError", "ParseError"}

\* `except Exception`
ExceptException(r) == Raised(r) /\ r.exception \in ExceptionClasses

\* lines 225-332: [waypoints |-> the list returned], [] on any exception; an
\* exception the handler does not take travels on
HandleExtract(r) == IF ExceptException(r) THEN Running(<<>>) ELSE r

extract_coordinates_from_kml(kml) == HandleExtract(ExtractBody(kml))

---------------------------------------------------------------------------
(* The device catalog (lines 16-81): enum, subtype and payload_enum.       *)

DroneConfig(enum, subtype, payload_enum) ==
  [enum |-> enum, subtype |-> subtype, payload_enum |-> payload_enum]

drone_configs ==
  [mavic3t    |-> DroneConfig(77, 1, 67),
   mavic3e    |-> DroneConfig(77, 0, 66),
   matrice4e  |-> DroneConfig(99, 0, 88),
   matrice4t  |-> DroneConfig(99, 1, 89),
   matrice350 |-> DroneConfig(89, 0, 42),
   matrice300 |-> DroneConfig(60, 0, 42),
   matrice30  |-> DroneConfig(67, 0, 52),
   matrice30t |-> DroneConfig(67, 1, 53)]

\* if drone_type not in self.drone_configs: drone_type = 'mavic3t'
\* no fallback: the key as given
KeepDrone(drone_type) == drone_type

ResolveDrone(drone_type) ==
  IF drone_type \notin DOMAIN drone_configs THEN "mavic3t" ELSE drone_type

---------------------------------------------------------------------------
(* create_waylines_wpml.  The document is the record of the values the     *)
(* f-string puts into the text, element by element.                        *)

Abs(x) == IF x < 0 THEN 0 - x ELSE x

\* int(a / b), Python's truncation toward zero, b # 0
TruncDiv(a, b) ==
  LET q == Abs(a) \div Abs(b) IN IF (a < 0) # (b < 0) THEN 0 - q ELSE q

EarthRadius == 6371000

\* 6371000 * c for one degree of arc, in whole metres: pi / 180 as
\* 355 / (113 * 180) = 71 / (113 * 36)
MetersPerDegree == (EarthRadius * 71) \div (113 * 36)

\* lines 352-359: the haversine length of a segment.  The waypoints of the model
\* lie on one meridian (dlon = 0), where it is the arc of the latitude difference.
SegmentDistance(wp1, wp2) == MetersPerDegree * Abs(wp2.latitude - wp1.latitude)

\* lines 347-364: the loop over range(1, len(waypoints)), to index k
RECURSIVE DistanceUpTo(_, _)
DistanceUpTo(waypoints, k) ==
  IF k < 2 THEN 0
  ELSE DistanceUpTo(waypoints, k - 1) + SegmentDistance(waypoints[k - 1], waypoints[k])

\* the speeds of all the waypoints, the first one too
RECURSIVE SpeedFromFirstUpTo(_, _)
SpeedFromFirstUpTo(waypoints, k) ==
  IF k < 1 THEN 0
  ELSE SpeedFromFirstUpTo(waypoints, k - 1)
       + Get(Get(waypoints[k], "actions", <<>>), "speed", 5)

RECURSIVE SpeedUpTo(_, _)
SpeedUpTo(waypoints, k) ==
  IF k < 2 THEN 0
  ELSE SpeedUpTo(waypoints, k - 1)
       + Get(Get(waypoints[k], "actions", <<>>), "speed", 5)

TotalDistance(waypoints) == DistanceUpTo(waypoints, Len(waypoints))

TotalSpeed(waypoints) == SpeedUpTo(waypoints, Len(waypoints))

SpeedCount(waypoints) == Len(waypoints) - 1

\* lines 367-371: total_distance / average_speed is computed for the report
\* before the document is built; average_speed = total_speed / speed_count
DivisionByZero(waypoints) == SpeedCount(waypoints) > 0 /\ TotalSpeed(waypoints) = 0

\* line 412: int((total_distance / average_speed) + (len(waypoints) * 2))
Duration(waypoints) ==
  LET n == Len(waypoints)
      num == IF SpeedCount(waypoints) > 0 THEN TotalSpeed(waypoints) ELSE 5
      den == IF SpeedCount(waypoints) > 0 THEN SpeedCount(waypoints) ELSE 1
  IN  TruncDiv(TotalDistance(waypoints) * den + 2 * n * num, num)

Action(id, func, param) ==
  [actionId |-> id, actionActuatorFunc |-> func, param |-> param]

ActionGroup(index, acts) ==
  [actionGroupId |-> index, actionGroupStartIndex |-> index,
   actionGroupEndIndex |-> index, actions |-> acts]

\* the photo before the pause
WaylineActionsPhotoFirst(acts) ==
  LET hovering_time == Get(acts, "hovering_time", 0)
      photo == IF Get(acts, "photo_action", None) # None
               THEN <<Action(0, "takePhoto", None)>> ELSE <<>>
      hover == IF hovering_time > 0
               THEN <<Action(Len(photo), "hover", Some(hovering_time))>> ELSE <<>>
      video == IF Get(acts, "video_action", None) # None
               THEN <<Action(Len(hover) + Len(photo),
                             IF acts.video_action = Some("start")
                             THEN "startRecord" ELSE "stopRecord",
                             None)>>
               ELSE <<>>
  IN  photo \o hover \o video

\* lines 485-519: hover, photo, video, numbered by action_count
WaylineActions(acts) ==
  LET hovering_time == Get(acts, "hovering_time", 0)
      hover == IF hovering_time > 0
               THEN <<Action(0, "hover", Some(hovering_time))>> ELSE <<>>
      photo == IF Get(acts, "photo_action", None) # None
               THEN <<Action(Len(hover), "takePhoto", None)>> ELSE <<>>
      video == IF Get(acts, "video_action", None) # None
               THEN <<Action(Len(hover) + Len(photo),
                             IF acts.video_action = Some("start")
                             THEN "startRecord" ELSE "stopRecord",
                             None)>>
               ELSE <<>>
  IN  hover \o photo \o video

\* a waypoint stops only when its record says so
stop_unless_absent(acts) == Get(acts, "stop_at_waypoint", FALSE)

\* line 429: stop_at_wp = actions.get('stop_at_waypoint', True)
stop_at_wp(acts) == Get(acts, "stop_at_waypoint", TRUE)

\* lines 428-525: one wpml:waypoint element
WaylineWaypoint(wp) ==
  LET acts == Get(wp, "actions", <<>>)
      heading == Get(acts, "heading", None)
      hovering_time == Get(acts, "hovering_time", 0)
  IN  [index |-> wp.index,
       height |-> wp.altitude, latitude |-> wp.latitude, longitude |-> wp.longitude,
       waypointSpeed |-> Get(acts, "speed", 5),
       waypointHeadingMode |->
         IF heading # None THEN "followWayline" ELSE "smoothTransition",
       waypointHeadingAngle |-> heading,
       waypointTurnMode |->
         IF stop_at_wp(acts) THEN "toPointAndStopWithDiscontinuityCurvature"
         ELSE "toPointAndPassWithContinuityCurvature",
       gimbalPitchAngle |-> Get(acts, "gimbal_pitch", -90),
       actionGroup |->
         IF \/ Get(acts, "photo_action", None) # None
            \/ hovering_time > 0
            \/ Get(acts, "video_action", None) # None
         THEN Some(ActionGroup(wp.index, WaylineActions(acts)))
         ELSE None]

EmptyString == [str |-> ""]

\* The wayline document, "" for no waypoints, or the exception raised.
\* current_time is what datetime.now() gave (line 339).
create_waylines_wpml(waypoints, mission_name, drone_type, current_time) ==
  IF waypoints = <<>> THEN EmptyString
  ELSE IF ResolveDrone(drone_type) \notin DOMAIN drone_configs THEN Raise("KeyError")
  ELSE IF DivisionByZero(waypoints) THEN Raise("ZeroDivisionError")
  ELSE [createTime |-> current_time,
        updateTime |-> current_time,
        n |-> mission_name,
        executeHeight |-> waypoints[1].altitude,
        distance |-> TotalDistance(waypoints),
        duration |-> Duration(waypoints),
        coordinates |->
          [k \in 1..Len(waypoints) |->
             <<waypoints[k].longitude, waypoints[k].latitude, waypoints[k].altitude>>],
        waypoints |-> [k \in 1..Len(waypoints) |-> WaylineWaypoint(waypoints[k])]]

---------------------------------------------------------------------------
(* create_template_file.                                                   *)

\* lines 629-709: rotateYaw if heading != 0, gimbalRotate, zoom, and
\* orientedShoot for a photo, numbered by action_id
TemplateActions(acts, heading, gimbal_pitch, action_uuid, config) ==
  LET yaw == IF heading # Some(0)
             THEN <<Action(0, "rotateYaw", [aircraftHeading |-> heading])>> ELSE <<>>
      gimbal == <<Action(Len(yaw), "gimbalRotate",
                         [gimbalPitchRotateAngle |-> gimbal_pitch])>>
      zoom == <<Action(Len(yaw) + 1, "zoom", [focalLength |-> 24])>>
      shoot == IF Get(acts, "photo_action", None) # None
               THEN <<Action(Len(yaw) + 2, "orientedShoot",
                             [gimbalPitchRotateAngle |-> gimbal_pitch,
                              aircraftHeading |-> heading,
                              actionUUID |-> action_uuid,
                              orientedCameraType |-> config.payload_enum,
                              orientedFilePath |-> action_uuid])>>
               ELSE <<>>
  IN  yaw \o gimbal \o zoom \o shoot

\* the condition of the wayline's group (line 473), with the video signal
HasWaylineGroup(wp) ==
  LET acts == Get(wp, "actions", <<>>)
  IN  \/ Get(acts, "photo_action", None) # None
      \/ Get(acts, "hovering_time", 0) > 0
      \/ Get(acts, "video_action", None) # None

\* line 615: the waypoint gets an action group (and a uuid4 is drawn)
HasTemplateGroup(wp) ==
  LET acts == Get(wp, "actions", <<>>)
  IN  Get(acts, "photo_action", None) # None \/ Get(acts, "hovering_time", 0) > 0

\* lines 595-716: one Placemark element
TemplatePlacemark(wp, action_uuid, config) ==
  LET acts == Get(wp, "actions", <<>>)
      gimbal_pitch == Get(acts, "gimbal_pitch", -90)
      heading == Get(acts, "heading", Some(0))
  IN  [coordinates |-> <<wp.longitude, wp.latitude>>,
       index |-> wp.index,
       ellipsoidHeight |-> wp.altitude,
       height |-> wp.altitude,
       gimbalPitchAngle |-> gimbal_pitch,
       actionGroup |->
         IF HasTemplateGroup(wp)
         THEN Some(ActionGroup(wp.index,
                     TemplateActions(acts, heading, gimbal_pitch, action_uuid, config)))
         ELSE None]

\* The template document, or the exception raised.  current_time is what
\* time.time() gave (line 544), uuids[k] what uuid.uuid4() gave for waypoint k.
create_template_file(waypoints, drone_type, current_time, uuids) ==
  IF ResolveDrone(drone_type) \notin DOMAIN drone_configs THEN Raise("KeyError")
  ELSE IF waypoints = <<>> THEN Raise("IndexError")
  ELSE LET config == drone_configs[ResolveDrone(drone_type)]
       IN  [createTime |-> current_time,
            updateTime |-> current_time,
            takeOffRefPoint |->
              <<waypoints[1].latitude, waypoints[1].longitude, waypoints[1].altitude>>,
            takeOffRefPointAGLHeight |-> waypoints[1].altitude,
            droneEnumValue |-> config.enum,
            droneSubEnumValue |-> config.subtype,
            payloadEnumValue |-> config.payload_enum,
            globalShootHeight |-> waypoints[1].altitude,
            placemarks |->
              [k \in 1..Len(waypoints) |->
                 TemplatePlacemark(waypoints[k], uuids[k], config)]]

---------------------------------------------------------------------------
(* convert_kml_to_wpml and batch_convert, step by step.                    *)

MaxClock == 1       \* clock readings are 0..MaxClock

UUIDs == {"uuid-a", "uuid-b"}

\* os.path.splitext(name)[0]
RECURSIVE SplitExtRoot(_)
SplitExtRoot(name) ==
  IF name = "" THEN ""
  ELSE IF Char(name, Len(name)) = "." THEN SubSeq(name, 1, Len(name) - 1)
  ELSE SplitExtRoot(SubSeq(name, 1, Len(name) - 1))

splitext(name) == IF Contains(".", name) THEN SplitExtRoot(name) ELSE name

\* the characters Windows forbids in a file name, without . _ \
invalid_chars_windows == "<>:\"/|?*"

invalid_chars == "<>:\"/|?*._\\"

\* for char in invalid_chars: clean_name = clean_name.replace(char, '')
RECURSIVE RemoveInvalid(_)
RemoveInvalid(name) ==
  IF name = "" THEN ""
  ELSE (IF Contains(Char(name, 1), invalid_chars) THEN "" ELSE Char(name, 1))
       \o RemoveInvalid(Rest(name))

\* lines 738-745 and 809-813
CleanName(file_name) == RemoveInvalid(splitext(file_name))

\* lines 751-752 (and 815-816): the archive's name in the output directory
OutputName(file_name) == CleanName(file_name) \o ".kmz"

\* line 794: f.lower().endswith('.kml')
IsKmlName(name) ==
  Len(name) >= 4 /\ SubSeq(Lower(name), Len(name) - 3, Len(name)) = ".kml"

input_file == kml_files[file_no]
output_file == OutputName(input_file.name)

Archive(entries, closed) == [entries |-> entries, closed |-> closed]
Entry(name, content) == [name |-> name, content |-> content]

\* the uuid4 draws that reach the document: one per waypoint with a photo action
UuidChoices(wps) ==
  {u \in [1..Len(wps) -> UUIDs] :
     \A k \in 1..Len(wps) :
       Get(Get(wps[k], "actions", <<>>), "photo_action", None) = None => u[k] = "uuid-a"}

\* `return False` / `return True` of convert_kml_to_wpml
Return(value) == /\ result' = Some(value)
                 /\ pc' = "returned"

\* an exception no handler takes ends the run
Escape == /\ pc' = "raised"
          /\ UNCHANGED result

\* no except clause: the exception leaves the function
Reraise(r) == Escape

\* the except clause of lines 779-781
CatchOrEscape(r) == IF ExceptException(r) THEN Return(FALSE) ELSE Escape

\* lines 790-803
BatchStart ==
  /\ pc = "batch_start"
  /\ kml_files' = SelectSeq(listing, LAMBDA f : IsKmlName(f.name))
  /\ pc' = IF kml_files' = <<>> THEN "done" ELSE "batch_loop"
  /\ UNCHANGED <<harness, mode, listing, device, file_no, extracted, wpml_content,
                 template_content, result, successful, failed, fs, clock, attempted,
                 generated>>

\* lines 805-818: the next file of the loop is handed to convert_kml_to_wpml
BatchNextFile ==
  /\ pc = "batch_loop"
  /\ file_no < Len(kml_files)
  /\ file_no' = file_no + 1
  /\ attempted' = Append(attempted, file_no + 1)
  /\ result' = None
  /\ pc' = "extract"
  /\ UNCHANGED <<harness, mode, listing, device, kml_files, extracted,
                 wpml_content, template_content, successful, failed, fs, clock,
                 generated>>

\* lines 823-829
BatchEnd ==
  /\ pc = "batch_loop"
  /\ file_no = Len(kml_files)
  /\ pc' = "done"
  /\ UNCHANGED <<harness, mode, listing, device, kml_files, file_no, extracted,
                 wpml_content, template_content, result, successful, failed, fs,
                 clock, attempted, generated>>

\* no test of the list: generation is entered with whatever was extracted
ExtractedUnchecked(r) ==
  IF Raised(r) THEN Escape /\ UNCHANGED extracted
  ELSE /\ extracted' = r.waypoints
       /\ pc' = "create_waylines" /\ UNCHANGED result

\* lines 731-735, r what extract_coordinates_from_kml gave
Extracted(r) ==
  IF Raised(r) THEN Escape /\ UNCHANGED extracted
  ELSE /\ extracted' = r.waypoints
       /\ IF r.waypoints = <<>> THEN Return(FALSE)
          ELSE pc' = "create_waylines" /\ UNCHANGED result

Extract ==
  /\ pc = "extract"
  /\ \E r \in {extract_coordinates_from_kml(input_file.kml)} : Extracted(r)
  /\ UNCHANGED <<harness, mode, listing, device, kml_files, file_no, wpml_content,
                 template_content, successful, failed, fs, clock, attempted,
                 generated>>

\* line 758, r what create_waylines_wpml gave
WaylinesCreated(r) ==
  IF Raised(r) THEN CatchOrEscape(r) /\ UNCHANGED wpml_content
  ELSE /\ wpml_content' = r
       /\ pc' = "create_template"
       /\ UNCHANGED result

CreateWaylines ==
  /\ pc = "create_waylines"
  /\ \E now \in clock..MaxClock :
       /\ clock' = now
       /\ WaylinesCreated(create_waylines_wpml(extracted, CleanName(input_file.name),
                                               device, now))
  /\ UNCHANGED <<harness, mode, listing, device, kml_files, file_no, extracted,
                 template_content, successful, failed, fs, attempted, generated>>

\* line 759, r what create_template_file gave
TemplateCreated(r, uuids) ==
  IF Raised(r) THEN CatchOrEscape(r) /\ UNCHANGED <<template_content, generated>>
  ELSE /\ template_content' = r
       /\ generated' =
            Append(generated,
                   [waypoints |-> extracted,
                    mission_name |-> CleanName(input_file.name),
                    drone_type |-> device,
                    uuids |-> uuids,
                    wpml_content |-> wpml_content,
                    template_content |-> r])
       /\ pc' = "open_archive"
       /\ UNCHANGED result

CreateTemplate ==
  /\ pc = "create_template"
  /\ \E now \in clock..MaxClock, uuids \in UuidChoices(extracted) :
       /\ clock' = now
       /\ TemplateCreated(create_template_file(extracted, device, now, uuids), uuids)
  /\ UNCHANGED <<harness, mode, listing, device, kml_files, file_no, extracted,
                 wpml_content, successful, failed, fs, attempted>>

\* line 762: zipfile.ZipFile(output_file, 'w') creates or truncates the file, or
\* raises OSError and leaves it alone
OpenArchive ==
  /\ pc = "open_archive"
  /\ \E ok \in BOOLEAN :
       IF ok
       THEN /\ fs' = (output_file :> Archive(<<>>, FALSE)) @@ fs
            /\ pc' = "write_waylines"
            /\ UNCHANGED result
       ELSE CatchOrEscape(Raise("OSError")) /\ UNCHANGED fs
  /\ UNCHANGED <<harness, mode, listing, device, kml_files, file_no, extracted,
                 wpml_content, template_content, successful, failed, clock,
                 attempted, generated>>

\* kmz.writestr(name, content); when it raises, the with statement closes the
\* archive with the entries written so far and the exception goes to the handler
WriteEntry(here, name, content, next) ==
  /\ pc = here
  /\ \E ok \in BOOLEAN :
       IF ok
       THEN /\ fs' = [fs EXCEPT ![output_file].entries = Append(@, Entry(name, content))]
            /\ pc' = next
            /\ UNCHANGED result
       ELSE /\ fs' = [fs EXCEPT ![output_file].closed = TRUE]
            /\ CatchOrEscape(Raise("OSError"))
  /\ UNCHANGED <<harness, mode, listing, device, kml_files, file_no, extracted,
                 wpml_content, template_content, successful, failed, clock,
                 attempted, generated>>

\* line 764
WriteWaylines ==
  WriteEntry("write_waylines", "wpmz/waylines.wpml", wpml_content, "write_template")

\* line 768
WriteTemplate ==
  WriteEntry("write_template", "wpmz/template.kml", template_content, "close_archive")

\* the end of the with statement, then lines 771-777
CloseArchive ==
  /\ pc = "close_archive"
  /\ fs' = [fs EXCEPT ![output_file].closed = TRUE]
  /\ Return(TRUE)
  /\ UNCHANGED <<harness, mode, listing, device, kml_files, file_no, extracted,
                 wpml_content, template_content, successful, failed, clock,
                 attempted, generated>>

\* a loop that counts and stops at the first failure
BatchCountOrAbort ==
  /\ pc = "returned"
  /\ mode = "batch"
  /\ IF result = Some(TRUE)
     THEN successful' = successful + 1 /\ pc' = "batch_loop" /\ UNCHANGED failed
     ELSE failed' = failed + 1 /\ pc' = "done" /\ UNCHANGED successful
  /\ UNCHANGED <<harness, mode, listing, device, kml_files, file_no, extracted,
                 wpml_content, template_content, result, fs, clock, attempted,
                 generated>>

\* lines 818-821: batch_convert counts what convert_kml_to_wpml returned
BatchCount ==
  /\ pc = "returned"
  /\ mode = "batch"
  /\ IF result = Some(TRUE)
     THEN successful' = successful + 1 /\ UNCHANGED failed
     ELSE failed' = failed + 1 /\ UNCHANGED successful
  /\ pc' = "batch_loop"
  /\ UNCHANGED <<harness, mode, listing, device, kml_files, file_no, extracted,
                 wpml_content, template_content, result, fs, clock, attempted,
                 generated>>

\* line 863: main drops the value in single-file mode
SingleEnd ==
  /\ pc = "returned"
  /\ mode = "single"
  /\ pc' = "done"
  /\ UNCHANGED <<harness, mode, listing, device, kml_files, file_no, extracted,
                 wpml_content, template_content, result, successful, failed, fs,
                 clock, attempted, generated>>

Convert ==
  \/ Extract
  \/ CreateWaylines
  \/ CreateTemplate
  \/ OpenArchive
  \/ WriteWaylines
  \/ WriteTemplate
  \/ CloseArchive

---------------------------------------------------------------------------
(* The inputs of a run.                                                    *)

MaxFeatures == 2    \* Placemark elements of the document of a single conversion
MaxFiles == 2       \* entries of the input directory of a batch

KmlFile(well_formed, features) == [well_formed |-> well_formed, features |-> features]
File(name, kml) == [name |-> name, kml |-> kml]

LineString(ns, coordinates) ==
  [ns |-> ns, geometry |-> "LineString", name |-> None, coordinates |-> coordinates,
   description |-> None, before |-> <<>>, extended |-> None, after |-> <<>>]

GoodPoint == PointPlacemark(TRUE, Some("A"), Some("10,20,30"), None, None, <<>>)
ZeroSpeedPoint ==
  PointPlacemark(TRUE, Some("Z"), Some("10,24,30"), None,
                 Some(<<Elem("mis", "speed", "0", None)>>), <<>>)
PhotoPoint ==
  PointPlacemark(TRUE, Some("P"), Some("10,23,40"), Some("Photo"),
                 Some(<<Elem("mis", "heading", "90", None),
                        Elem("mis", "actions", "Hovering", Some("1500"))>>), <<>>)
BlankLineString == LineString(TRUE, Some("\n10,20,30\n\n10,22\n"))
ShortPoint == PointPlacemark(TRUE, Some("S"), Some("10"), None, None, <<>>)

FeatureInputs ==
  {GoodPoint,
   PointPlacemark(TRUE, None, Some(" 10, 21 \n10,25,30"), None, None, <<>>),
   PointPlacemark(TRUE, Some("N"), Some("10,north,5"), None, None, <<>>),
   ShortPoint,
   PointPlacemark(TRUE, Some("E"), Some(""), None, None, <<>>),
   PointPlacemark(TRUE, Some("F"), Some("10,22,30"), None,
                  Some(<<Elem("mis", "speed", "fast", None)>>), <<>>),
   PhotoPoint,
   ZeroSpeedPoint,
   PointPlacemark(FALSE, Some("U"), Some("10,26,"), Some("continuous"), None, <<>>),
   BlankLineString,
   LineString(TRUE, Some("10,20\n10\n10,23,5")),
   LineString(TRUE, Some("10,20,30 10,21,30"))}

\* the documents of a single conversion
KmlInputs ==
  {KmlFile(FALSE, <<>>)} \cup {KmlFile(TRUE, f) : f \in SeqsUpTo(FeatureInputs, MaxFeatures)}

\* the documents of the files of a batch
BatchKmlInputs ==
  {KmlFile(FALSE, <<>>),
   KmlFile(TRUE, <<ShortPoint>>),
   KmlFile(TRUE, <<PhotoPoint>>),
   KmlFile(TRUE, <<GoodPoint, ZeroSpeedPoint>>)}

KmlNames == {"ab.kml", "a_b.KML"}
OtherNames == {"notes.txt"}

\* a directory holds each name once, in whatever order os.listdir gives
ListingInputs ==
  {l \in SeqsUpTo({File(n, k) : n \in KmlNames, k \in BatchKmlInputs}
                    \cup {File(n, KmlFile(FALSE, <<>>)) : n \in OtherNames},
                  MaxFiles) :
     \A a, b \in 1..Len(l) : a # b => l[a].name # l[b].name}

DeviceInputs == {"mavic3t", "phantom4"}

SingleInputName == "m<y>_p:l\"a|n?.v*2\\.kml"

OldFile == Archive(<<Entry("old", "old")>>, TRUE)
NoFiles == [name \in {} |-> OldFile]

Idle ==
  /\ kml_files = <<>>
  /\ file_no = 0
  /\ extracted = <<>>
  /\ wpml_content = None
  /\ template_content = None
  /\ result = None
  /\ successful = 0
  /\ failed = 0
  /\ clock = 0
  /\ attempted = <<>>
  /\ generated = <<>>

NoHarness ==
  /\ placemark = None
  /\ actions = NotCalled

\* batch_convert(input_dir, output_dir, drone_type)
Init ==
  /\ NoHarness
  /\ mode = "batch"
  /\ listing \in ListingInputs
  /\ device \in DeviceInputs
  /\ fs \in {NoFiles, ("ab.kmz" :> OldFile)}
  /\ pc = "batch_start"
  /\ Idle

Next == BatchStart \/ BatchNextFile \/ BatchEnd \/ Convert \/ BatchCount

Spec == Init /\ [][Next]_vars

ProgramCounters ==
  {"batch_start", "batch_loop", "extract", "create_waylines", "create_template",
   "open_archive", "write_waylines", "write_template", "close_archive", "returned",
   "done", "raised"}

\* The interpreter runs the one thread of batch_convert on until the function
\* returns or an exception leaves it.  Every step of Next moves pc and every
\* move of pc is a step of Next, so the fairness of Next is that of the move.
Advance == pc \notin {"done", "raised"} /\ pc' \in ProgramCounters \ {pc}

FairSpec == Spec /\ WF_pc(Advance)

\* convert_kml_to_wpml(input_file, output_file, drone_type)
InitConvert ==
  /\ NoHarness
  /\ mode = "single"
  /\ listing \in {<<File(SingleInputName, k)>> : k \in KmlInputs}
  /\ device \in DeviceInputs
  /\ fs \in {NoFiles, (OutputName(SingleInputName) :> OldFile)}
  /\ pc = "extract"
  /\ kml_files = listing
  /\ file_no = 1
  /\ attempted = <<1>>
  /\ extracted = <<>>
  /\ wpml_content = None
  /\ template_content = None
  /\ result = None
  /\ successful = 0
  /\ failed = 0
  /\ clock = 0
  /\ generated = <<>>

NextConvert == Convert \/ SingleEnd

SpecConvert == InitConvert /\ [][NextConvert]_vars

\* main (lines 831-863): the batch for --batch or a directory, else one conversion
InitMain == Init \/ InitConvert

NextMain == Next \/ SingleEnd

SpecMain == InitMain /\ [][NextMain]_vars

---------------------------------------------------------------------------
(* create_waylines_wpml and create_template_file applied to a list of      *)
(* waypoints, as convert_kml_to_wpml does after the extraction (lines      *)
(* 757-759).                                                               *)

MaxWaypoints == 3   \* waypoints of the list

\* the action record extract_waypoint_actions gives for a placemark
ActionsOf(description, extended) ==
  extract_waypoint_actions(
    PointPlacemark(TRUE, Some("WP"), Some("10,20,30"), description, Some(extended), <<>>))

\* waypoints as the extraction returns them, on the point path and on the
\* LineString path, and as a caller of the two functions may write them: an
\* action record with few keys, and no action record
WaypointInputs ==
  {Waypoint("P", 10, 21, 40, 0, ActionsOf(Some("Photo"), <<>>)),
   Waypoint("H", 10, 22, 40, 0,
            ActionsOf(Some("Photo continuous"),
                      <<Elem("mis", "heading", "90", None),
                        Elem("mis", "actions", "Hovering", Some("1500")),
                        Elem("mis", "actions", "StopRecord", None)>>)),
   Waypoint("N", 10, 23, 40, 0,
            ActionsOf(None,
                      <<Elem("mis", "heading", "0", None),
                        Elem("mis", "speed", "8", None),
                        Elem("mis", "actions", "Hovering", Some("x"))>>)),
   Waypoint("V", 10, 24, 40, 0,
            ActionsOf(None,
                      <<Elem("mis", "speed", "0", None),
                        Elem("mis", "actions", "StartRecord", None)>>)),
   Waypoint("Waypoint_1", 10, 27, 50, 0, LineStringActions),
   Waypoint("K", 10, 28, 50, 0, [speed |-> 3, photo_action |-> Some("single")]),
   [name |-> "B", longitude |-> 10, latitude |-> 29, altitude |-> 50, index |-> 0]}

\* the index of a waypoint is its place in the list, from 0
Indexed(wps) == [k \in 1..Len(wps) |-> [wps[k] EXCEPT !.index = k - 1]]

WaypointListInputs ==
  {Indexed(wps) : wps \in SeqsUpTo(WaypointInputs, MaxWaypoints) \ {<<>>}}

InitGenerate ==
  /\ NoHarness
  /\ mode = "single"
  /\ listing = <<File(SingleInputName, KmlFile(TRUE, <<>>))>>
  /\ device = "mavic3t"
  /\ fs = NoFiles
  /\ pc = "create_waylines"
  /\ kml_files = listing
  /\ file_no = 1
  /\ attempted = <<1>>
  /\ extracted \in WaypointListInputs
  /\ wpml_content = None
  /\ template_content = None
  /\ result = None
  /\ successful = 0
  /\ failed = 0
  /\ clock = 0
  /\ generated = <<>>

NextGenerate == CreateWaylines \/ CreateTemplate

SpecGenerate == InitGenerate /\ [][NextGenerate]_vars

---------------------------------------------------------------------------
(* extract_waypoint_actions applied to one placemark.                      *)

InitActions ==
  /\ placemark \in PlacemarkInputs
  /\ actions = NotCalled
  /\ mode = "single"
  /\ listing = <<>>
  /\ device = "mavic3t"
  /\ fs = NoFiles
  /\ pc = "done"
  /\ Idle

ExtractWaypointActions ==
  /\ actions = NotCalled
  /\ actions' = extract_waypoint_actions(placemark)
  /\ UNCHANGED <<placemark, program>>

NextActions == ExtractWaypointActions

SpecActions == InitActions /\ [][NextActions]_vars

Returned(r) == "stop_at_waypoint" \in DOMAIN r

---------------------------------------------------------------------------
(* Properties of a single conversion (SpecConvert).                        *)

features == listing[1].kml.features

\* extraction has run for the file of the conversion
ExtractionDone == mode = "single" /\ pc # "extract"

IndexValues(elements) == [k \in 1..Len(elements) |-> elements[k].index]

Contiguous(n) == [k \in 1..n |-> k - 1]

\* C2: in the sequence extract_coordinates_from_kml returns, on the point path
\* and on the LineString path alike, the k-th accepted waypoint has index k
\* (counted from 0): the indices are unique, contiguous, and in acceptance order.
C2_IndexIsAcceptanceOrder ==
  ExtractionDone => IndexValues(extracted) = Contiguous(Len(extracted))

\* both documents of the conversion have been generated
BothGenerated ==
  mode = "single" /\ pc \in {"open_archive", "write_waylines", "write_template",
                             "close_archive"}

\* C1: the wayline document has one wpml:waypoint per extracted waypoint, the
\* template one Placemark per extracted waypoint, and the wpml:index values are
\* the same sequence in both documents, namely 0, 1, ..., n-1.
C1_SameContiguousIndices ==
  BothGenerated =>
    /\ Len(wpml_content.waypoints) = Len(extracted)
    /\ Len(template_content.placemarks) = Len(extracted)
    /\ IndexValues(wpml_content.waypoints) = IndexValues(template_content.placemarks)
    /\ IndexValues(wpml_content.waypoints) = Contiguous(Len(extracted))

\* the coordinates text of a point placemark parses: two or three numeric fields
\* on its first line
WellFormedCoordinates(pm) ==
  /\ pm.coordinates \notin {None, Some("")}
  /\ ParsePointCoordinates(<<>>, pm, Strip(pm.coordinates[1]), DefaultActions) # <<>>

LatitudeOf(pm) == float(Strip(Split(Strip(Split(pm.coordinates[1], "\n")[1]), ",")[2]))

Latitudes(elements) == [k \in 1..Len(elements) |-> elements[k].latitude]

ExpectedLatitudes(pms) == [k \in 1..Len(pms) |-> LatitudeOf(pms[k])]

\* the extension fields that float() reads, and the ones whose text is no number
NumericFields(pm) ==
  SelectSeq(Descendants(pm),
            LAMBDA e : \/ e.tag \in {"speed", "heading", "gimbalPitch"}
                       \/ e.tag = "Data" /\ Lower(Attr(e.name, "")) = "speed")

NonNumeric(e) == ~is_float(IF e.tag = "Data" THEN TextOf(e.value) ELSE e.text)

HasNonNumericField(pm) == SelectSeq(NumericFields(pm), NonNumeric) # <<>>

\* a document of namespaced point placemarks with well-formed coordinates
PointDocument ==
  /\ listing[1].kml.well_formed
  /\ features # <<>>
  /\ \A k \in 1..Len(features) :
       features[k].ns /\ features[k].geometry = "Point"

\* C5: a placemark whose extension field holds text that is no number is still
\* returned as a waypoint, the field keeps its default, and every other
\* placemark of the file is still returned.
C5_NonNumericFieldIgnored ==
  (/\ ExtractionDone
   /\ PointDocument
   /\ \A k \in 1..Len(features) : WellFormedCoordinates(features[k]))
  => /\ Latitudes(extracted) = ExpectedLatitudes(features)
     /\ \A k \in 1..Len(features) :
          (HasNonNumericField(features[k]) /\ Len(NumericFields(features[k])) = 1)
          => extracted[k].actions.speed = DefaultActions.speed

\* C6: on the point path a placemark with malformed coordinates (a field that
\* is no number, fewer than two fields, an empty element) is skipped, and the
\* well-formed placemarks before and after it are returned in document order.
C6_MalformedCoordinatesSkipped ==
  (/\ ExtractionDone
   /\ PointDocument
   /\ \A k \in 1..Len(features) : ~HasNonNumericField(features[k]))
  => Latitudes(extracted) =
       ExpectedLatitudes(SelectSeq(features, WellFormedCoordinates))

\* an outcome of a document function for the device of the run
UnknownDevice == device \notin DOMAIN drone_configs

\* C10: for a device key that is not in the catalog the two document functions
\* end as they do for 'mavic3t', with no KeyError: the same outcome when they
\* are called, and the same pair of documents (drone enum, sub-enum and payload
\* enum of 'mavic3t') once both are generated.
C10_UnknownDeviceIsMavic3t ==
  (mode = "single" /\ UnknownDevice) =>
    /\ pc = "create_waylines" =>
         \A now \in 0..MaxClock :
           /\ create_waylines_wpml(extracted, CleanName(input_file.name), device, now)
                = create_waylines_wpml(extracted, CleanName(input_file.name),
                                       "mavic3t", now)
           /\ create_waylines_wpml(extracted, CleanName(input_file.name), device, now)
                # Raise("KeyError")
    /\ pc = "create_template" =>
         \A now \in 0..MaxClock, uuids \in UuidChoices(extracted) :
           /\ create_template_file(extracted, device, now, uuids)
                = create_template_file(extracted, "mavic3t", now, uuids)
           /\ create_template_file(extracted, device, now, uuids) # Raise("KeyError")
    /\ \A k \in 1..Len(generated) :
         /\ generated[k].template_content.droneEnumValue = drone_configs["mavic3t"].enum
         /\ generated[k].template_content.droneSubEnumValue
              = drone_configs["mavic3t"].subtype
         /\ generated[k].template_content.payloadEnumValue
              = drone_configs["mavic3t"].payload_enum

\* C10 witness: both documents were generated for the key 'phantom4', with a
\* photo waypoint carrying the payload enum of 'mavic3t'
C10_Witness ==
  /\ mode = "single"
  /\ device = "phantom4"
  /\ pc = "open_archive"
  /\ Len(generated) = 1
  /\ generated[1].template_content.droneEnumValue = 77
  /\ \E k \in 1..Len(extracted) :
       generated[1].template_content.placemarks[k].actionGroup # None

---------------------------------------------------------------------------
(* Properties of extract_waypoint_actions (SpecActions).                   *)

Fields ==
  {"stop_at_waypoint", "photo_action", "video_action", "speed", "heading",
   "gimbal_pitch", "hovering_time"}

\* a record that differs from DefaultActions in every field, with values no
\* source writes
OtherActions ==
  [stop_at_waypoint |-> FALSE, photo_action |-> Some("other"),
   video_action |-> Some("other"), speed |-> 77, heading_mode |-> "smoothTransition",
   heading |-> Some(777), gimbal_pitch |-> 77, hovering_time |-> 77]

\* the four sources in the order of C7, each applied on its own to a record a
SourceScan(source, a, pm) ==
  CASE source = 1 -> ScanDescription(a, pm)
    [] source = 2 -> ScanExtendedData(a, pm)
    [] source = 3 -> ScanMis(a, pm)
    [] source = 4 -> ScanData(a, pm)

\* the four sources, each applied on its own to the record a
Scans(a, pm) == [source \in 1..4 |-> SourceScan(source, a, pm)]

\* what a source says about a field, from its scans of two records that differ
\* in the field: Some(value) when it writes the field whatever the field held,
\* None when it leaves the field as it was
Signal(scan, other, field) == IF scan[field] = other[field] THEN Some(scan[field]) ELSE None

RECURSIVE LastSignal(_, _, _, _)
LastSignal(source, scans, others, field) ==
  IF source = 0 THEN DefaultActions[field]
  ELSE IF Signal(scans[source], others[source], field) # None
       THEN scans[source][field]
       ELSE LastSignal(source - 1, scans, others, field)

\* C7: every field of the record extract_waypoint_actions returns holds the
\* value of the last source, in the order description, ExtendedData scan, mis
\* elements, kml:Data, that carries a signal for the field, and the default
\* when none does.
C7_LastWriterWins ==
  Returned(actions) =>
    \A scans \in {Scans(DefaultActions, placemark)},
       others \in {Scans(OtherActions, placemark)},
       field \in Fields :
      actions[field] = LastSignal(4, scans, others, field)

StopSignal(source, pm) ==
  Signal(SourceScan(source, DefaultActions, pm), SourceScan(source, OtherActions, pm),
         "stop_at_waypoint")

\* C7 witness: the description says stop, a mis pointType after it says Line,
\* and the vendor field has won
C7_Witness ==
  /\ Returned(actions)
  /\ placemark.ns
  /\ placemark.description = Some("STOP here")
  /\ StopSignal(1, placemark) = Some(TRUE)
  /\ StopSignal(3, placemark) = Some(FALSE)
  /\ StopSignal(4, placemark) = None
  /\ actions.stop_at_waypoint = FALSE

\* C8: for a point placemark with no other stop/continuous signal, a
\* description containing "continuous" in any letter case gives
\* stop_at_waypoint = FALSE, and one containing "stop" and no "continuous"
\* gives stop_at_waypoint = TRUE.
C8_DescriptionKeyword ==
  (/\ Returned(actions)
   /\ placemark.description # None
   /\ placemark.extended = None
   /\ placemark.after = <<>>)
  => /\ Contains("continuous", Lower(placemark.description[1]))
          => actions.stop_at_waypoint = FALSE
     /\ (/\ Contains("stop", Lower(placemark.description[1]))
         /\ ~Contains("continuous", Lower(placemark.description[1])))
          => actions.stop_at_waypoint = TRUE

---------------------------------------------------------------------------
(* Properties of batch_convert (Spec, FairSpec).                           *)

\* the files whose conversion has returned and been counted
Processed ==
  IF pc = "batch_start" THEN 0
  ELSE IF pc \in {"batch_loop", "done"} THEN file_no
  ELSE file_no - 1

Converted == IF result = Some(TRUE) THEN 1 ELSE 0

\* C3: after every turn of the loop successful + failed is the number of files
\* processed, a file counts as failed exactly when its conversion returned
\* False, the batch ends with successful + failed = N, and no exception of a
\* conversion leaves batch_convert.
C3_CountersAndNoEscape ==
  /\ [](/\ pc # "raised"
        /\ successful + failed = Processed
        /\ pc = "done" => successful + failed = Len(kml_files))
  /\ [][pc = "returned" =>
          /\ successful' = successful + Converted
          /\ failed' = failed + (1 - Converted)]_vars

\* C3 witness: a batch of two files has ended with one success and one failure
C3_Witness ==
  /\ mode = "batch"
  /\ pc = "done"
  /\ Len(kml_files) = 2
  /\ successful = 1
  /\ failed = 1

ListedKml == SelectSeq(listing, LAMBDA f : IsKmlName(f.name))

\* C4: the files are attempted in the order listed, each exactly once, the
\* next one only when the one before has returned, and the batch ends with all
\* N listed .kml files attempted whatever their outcomes.
C4_EachFileOnceToTheEnd ==
  /\ [](attempted = [k \in 1..file_no |-> k])
  /\ [][file_no' # file_no => pc = "batch_loop" /\ file_no' = file_no + 1]_vars
  /\ <>[](/\ pc = "done"
          /\ kml_files = ListedKml
          /\ attempted = [k \in 1..Len(ListedKml) |-> k]
          /\ successful + failed = Len(ListedKml))

\* C4 witness: the first file has failed and the second one is being attempted
C4_Witness ==
  /\ mode = "batch"
  /\ pc = "extract"
  /\ file_no = 2
  /\ attempted = <<1, 2>>
  /\ failed = 1
  /\ successful = 0

\* C9: two generations from the same waypoints, mission name and device key,
\* with the same oriented-photo identifiers, give the same two documents
\* whenever they run.
C9_GenerationDeterministic ==
  \A a, b \in 1..Len(generated) :
    (/\ generated[a].waypoints = generated[b].waypoints
     /\ generated[a].mission_name = generated[b].mission_name
     /\ generated[a].drone_type = generated[b].drone_type
     /\ generated[a].uuids = generated[b].uuids)
    => /\ generated[a].wpml_content = generated[b].wpml_content
       /\ generated[a].template_content = generated[b].template_content

---------------------------------------------------------------------------
(* The output archive (SpecConvert, Spec).                                 *)

ConversionOver == pc \in {"returned", "done", "raised"}

\* what a finished conversion puts at the output path
CompleteArchive ==
  Archive(<<Entry("wpmz/waylines.wpml", wpml_content),
            Entry("wpmz/template.kml", template_content)>>, TRUE)

\* C11: after a conversion attempt, however it ended (success, or a failure at
\* any step, also after the archive was opened or between the two writes), the
\* file at the output path is what it was before the attempt (absent, or the
\* old file) or a complete archive holding both entries.
C11_OldOrCompleteArchive ==
  (mode = "single" /\ ConversionOver) =>
    \/ output_file \notin DOMAIN fs
    \/ fs[output_file] = OldFile
    \/ fs[output_file] = CompleteArchive

\* C12: when the input is not parseable XML, or extraction yields zero usable
\* waypoints, convert_kml_to_wpml returns failure at once, without creating or
\* modifying any file; in a batch the file is counted as failed and the next
\* file of the list is attempted.
C12_NoWaypointsNoArchive ==
  /\ [][(pc = "extract" /\ (~input_file.kml.well_formed \/ extracted' = <<>>))
        => /\ pc' = "returned"
           /\ result' = Some(FALSE)
           /\ extracted' = <<>>
           /\ fs' = fs]_vars
  /\ \A k \in 1..MaxFiles, n \in 0..MaxFiles :
       (/\ pc = "returned"
        /\ extracted = <<>>
        /\ file_no = k
        /\ k < Len(kml_files)
        /\ failed = n)
       ~> (pc = "extract" /\ file_no = k + 1 /\ failed = n + 1)

\* C12 witness: the first file of a batch, well-formed but with no usable
\* waypoint, was refused with the old archive untouched, and the second file is
\* being attempted
C12_Witness ==
  /\ mode = "batch"
  /\ pc = "extract"
  /\ file_no = 2
  /\ kml_files[1].kml = KmlFile(TRUE, <<ShortPoint>>)
  /\ extracted = <<>>
  /\ result = None
  /\ failed = 1
  /\ fs = ("ab.kmz" :> OldFile)

Denylist == {"<", ">", ":", "\"", "/", "|", "?", "*", ".", "_", "\\"}

RECURSIVE Without(_, _)
Without(name, chars) ==
  IF name = "" THEN ""
  ELSE (IF Char(name, 1) \in chars THEN "" ELSE Char(name, 1))
       \o Without(Rest(name), chars)

\* the name up to its last dot
BaseName(name) ==
  LET dots == {k \in 1..Len(name) : Char(name, k) = "."}
  IN  IF dots = {} THEN name
      ELSE SubSeq(name, 1, (CHOOSE k \in dots : \A j \in dots : j <= k) - 1)

ExpectedArchiveName == Without(BaseName(input_file.name), Denylist) \o ".kmz"

EntryNames(archive) == [k \in 1..Len(archive.entries) |-> archive.entries[k].name]

---------------------------------------------------------------------------
(* The LineString fallback (SpecConvert).                                  *)

FromLineString(wp) == wp.actions = LineStringActions

\* the words of a text, separated by white space
RECURSIVE Words(_, _, _)
Words(s, k, word) ==
  IF k > Len(s) THEN (IF word = "" THEN <<>> ELSE <<word>>)
  ELSE IF IsSpace(Char(s, k))
       THEN (IF word = "" THEN <<>> ELSE <<word>>) \o Words(s, k + 1, "")
       ELSE Words(s, k + 1, word \o Char(s, k))

\* the tuples lon,lat[,alt] that the coordinates of the LineStrings list
RECURSIVE ListedTuples(_)
ListedTuples(elements) ==
  IF elements = <<>> THEN <<>>
  ELSE (IF elements[1].geometry = "LineString" /\ elements[1].coordinates # None
        THEN SelectSeq(Words(elements[1].coordinates[1], 1, ""),
                       LAMBDA t : Len(Split(t, ",")) >= 2)
        ELSE <<>>)
       \o ListedTuples(Tail(elements))

TupleLatitudes(tuples) ==
  [k \in 1..Len(tuples) |-> float(Split(tuples[k], ",")[2])]

\* C14: the waypoints come from the LineStrings exactly when the document has
\* no point placemark; they are then one per listed coordinate tuple, in the
\* listed order, each with stop_at_waypoint = false.
C14_FallbackIffNoPointPlacemark ==
  (ExtractionDone /\ listing[1].kml.well_formed)
  => IF \E k \in 1..Len(features) : features[k].geometry = "Point"
     THEN \A k \in 1..Len(extracted) : ~FromLineString(extracted[k])
     ELSE /\ Latitudes(extracted) = TupleLatitudes(ListedTuples(features))
          /\ \A k \in 1..Len(extracted) :
               extracted[k].actions.stop_at_waypoint = FALSE

---------------------------------------------------------------------------
(* The vendor elements outside ExtendedData (SpecActions).                 *)

ActionFields == {"photo_action", "hovering_time", "video_action"}

\* the placemark with its direct children moved into an ExtendedData element
InsideExtendedData(pm) == [pm EXCEPT !.extended = Some(pm.after), !.after = <<>>]

\* C15: a mis:actions element that is a direct child of the placemark sets
\* photo_action, hovering_time and video_action exactly as the same element
\* does inside ExtendedData, for ShootPhoto, Hovering, StartRecord and
\* StopRecord.
C15_DirectChildAsInsideExtendedData ==
  (/\ Returned(actions)
   /\ placemark.ns
   /\ placemark.extended = None
   /\ Len(placemark.after) = 1
   /\ placemark.after[1].tag = "actions")
  => \A inside \in {extract_waypoint_actions(InsideExtendedData(placemark))} :
       \A field \in ActionFields : actions[field] = inside[field]

---------------------------------------------------------------------------
(* The two documents of a list of waypoints (SpecGenerate).                *)

WaylinesDone == wpml_content # None

TemplateDone == template_content # None

ActionsOfWaypoint(wp) == IF "actions" \in DOMAIN wp THEN wp.actions ELSE <<>>

Has(acts, key) == key \in DOMAIN acts /\ acts[key] # None

Funcs(group) == [k \in 1..Len(group.actions) |-> group.actions[k].actionActuatorFunc]

ActionIds(group) == [k \in 1..Len(group.actions) |-> group.actions[k].actionId]

HasFunc(group, func) == \E k \in 1..Len(group.actions) : Funcs(group)[k] = func

\* C16: the action group of a template placemark holds a rotateYaw action
\* only for a waypoint whose heading is not zero: a waypoint with no heading
\* signal, and one with heading 0, get none.
C16_RotateYawOnlyForNonZeroHeading ==
  TemplateDone
  => \A k \in 1..Len(extracted) :
       \A group \in {template_content.placemarks[k].actionGroup} :
         (group # None /\ HasFunc(group[1], "rotateYaw"))
         => /\ Has(ActionsOfWaypoint(extracted[k]), "heading")
            /\ ActionsOfWaypoint(extracted[k]).heading # Some(0)

HoverOf(acts) == IF "hovering_time" \in DOMAIN acts THEN acts.hovering_time ELSE 0

Kind(func) ==
  CASE func = "hover" -> "hover"
    [] func = "takePhoto" -> "photo"
    [] func \in {"startRecord", "stopRecord"} -> "video"
    [] OTHER -> "other"

Kinds(group) == [k \in 1..Len(group.actions) |-> Kind(Funcs(group)[k])]

ExpectedKinds(acts) ==
  (IF HoverOf(acts) > 0 THEN <<"hover">> ELSE <<>>)
  \o (IF Has(acts, "photo_action") THEN <<"photo">> ELSE <<>>)
  \o (IF Has(acts, "video_action") THEN <<"video">> ELSE <<>>)

FromZero(n) == [k \in 1..n |-> k - 1]

\* C17: a wayline waypoint has an action group exactly when the waypoint has
\* hovering_time > 0, a photo_action or a video_action; the group holds one
\* action per signal in the order hover, photo, video, and their actionId
\* values are 0, 1, 2, ... without a gap.
C17_WaylineActionGroup ==
  WaylinesDone
  => \A k \in 1..Len(extracted) :
       \A group \in {wpml_content.waypoints[k].actionGroup},
          kinds \in {ExpectedKinds(ActionsOfWaypoint(extracted[k]))} :
         /\ group # None <=> kinds # <<>>
         /\ group # None
            => /\ Kinds(group[1]) = kinds
               /\ ActionIds(group[1]) = FromZero(Len(kinds))

\* C17 witness: a generated wayline with a waypoint that hovers, takes a photo
\* and stops the recording
C17_Witness ==
  /\ WaylinesDone
  /\ \E k \in 1..Len(extracted) :
       /\ wpml_content.waypoints[k].actionGroup # None
       /\ Funcs(wpml_content.waypoints[k].actionGroup[1])
            = <<"hover", "takePhoto", "stopRecord">>

WithoutYaw(funcs) ==
  IF funcs # <<>> /\ Head(funcs) = "rotateYaw" THEN Tail(funcs) ELSE funcs

\* C18: a template placemark has an action group exactly when the waypoint has
\* a photo_action or hovering_time > 0, and the wayline waypoint then has an
\* action group with the same group id; the group holds, in this order, at
\* most one rotateYaw, a gimbalRotate, a zoom, and an orientedShoot only for a
\* waypoint with a photo_action, with actionId 0, 1, 2, ... without a gap; the
\* actionUUID of an orientedShoot equals its orientedFilePath.
C18_TemplateActionGroup ==
  TemplateDone
  => \A k \in 1..Len(extracted) :
       \A group \in {template_content.placemarks[k].actionGroup},
          wayline \in {wpml_content.waypoints[k].actionGroup},
          acts \in {ActionsOfWaypoint(extracted[k])} :
         /\ group # None <=> (Has(acts, "photo_action") \/ HoverOf(acts) > 0)
         /\ group # None
            => /\ wayline # None
               /\ wayline[1].actionGroupId = group[1].actionGroupId
               /\ WithoutYaw(Funcs(group[1]))
                    \in {<<"gimbalRotate", "zoom">>,
                         <<"gimbalRotate", "zoom", "orientedShoot">>}
               /\ HasFunc(group[1], "orientedShoot") => Has(acts, "photo_action")
               /\ ActionIds(group[1]) = FromZero(Len(group[1].actions))
               /\ \A a \in 1..Len(group[1].actions) :
                    Funcs(group[1])[a] = "orientedShoot"
                    => group[1].actions[a].param.actionUUID
                         = group[1].actions[a].param.orientedFilePath

\* C18 witness: a generated template whose second placemark has the four
\* actions, with the identifier drawn for it, and the wayline's group of the
\* same id
C18_Witness ==
  /\ TemplateDone
  /\ Len(extracted) = 2
  /\ template_content.placemarks[2].actionGroup # None
  /\ Funcs(template_content.placemarks[2].actionGroup[1])
       = <<"rotateYaw", "gimbalRotate", "zoom", "orientedShoot">>
  /\ template_content.placemarks[2].actionGroup[1].actions[4].param.orientedFilePath
       = "uuid-b"
  /\ wpml_content.waypoints[2].actionGroup # None
  /\ wpml_content.waypoints[2].actionGroup[1].actionGroupId = 1

StopMode == "toPointAndStopWithDiscontinuityCurvature"
PassMode == "toPointAndPassWithContinuityCurvature"

\* C19: in the wayline document a waypoint with stop_at_waypoint = true has
\* turn mode toPointAndStopWithDiscontinuityCurvature and every other waypoint
\* toPointAndPassWithContinuityCurvature, where a waypoint whose action record
\* has no stop_at_waypoint field counts as stop = true.
C19_TurnMode ==
  WaylinesDone
  => \A k \in 1..Len(extracted) :
       \A acts \in {ActionsOfWaypoint(extracted[k])} :
         wpml_content.waypoints[k].waypointTurnMode
           = IF "stop_at_waypoint" \in DOMAIN acts /\ ~acts.stop_at_waypoint
             THEN PassMode ELSE StopMode

\* C19 witness: a generated wayline whose first waypoint has a record without
\* the field and stops, and whose second waypoint passes
C19_Witness ==
  /\ WaylinesDone
  /\ Len(extracted) = 2
  /\ "actions" \in DOMAIN extracted[1]
  /\ "stop_at_waypoint" \notin DOMAIN extracted[1].actions
  /\ wpml_content.waypoints[1].waypointTurnMode = StopMode
  /\ wpml_content.waypoints[2].waypointTurnMode = PassMode

SpeedOf(wp) ==
  IF "speed" \in DOMAIN ActionsOfWaypoint(wp) THEN ActionsOfWaypoint(wp).speed ELSE 5

RECURSIVE SumOfSegments(_)
SumOfSegments(wps) ==
  IF Len(wps) < 2 THEN 0
  ELSE SegmentDistance(wps[1], wps[2]) + SumOfSegments(Tail(wps))

RECURSIVE SumOfSpeeds(_)
SumOfSpeeds(wps) == IF wps = <<>> THEN 0 ELSE SpeedOf(Head(wps)) + SumOfSpeeds(Tail(wps))

\* d is the integer part of distance / (speeds / count) + 2 * n, for speeds > 0
IsDuration(d, distance, speeds, count, n) ==
  /\ d * speeds <= distance * count + 2 * n * speeds
  /\ distance * count + 2 * n * speeds < (d + 1) * speeds

\* C20: the distance of the wayline document is the sum of the segment
\* distances over the consecutive pairs of waypoints, in order (0 for one
\* waypoint); its duration is the integer part of distance / mean speed + 2 * n
\* for n waypoints, where the mean speed is the arithmetic mean of the speeds of
\* all waypoints but the first (5 for one waypoint).
C20_DistanceAndDuration ==
  WaylinesDone
  => \A distance \in {SumOfSegments(extracted)},
        speeds \in {SumOfSpeeds(Tail(extracted))} :
       /\ wpml_content.distance = distance
       /\ Len(extracted) = 1 => wpml_content.distance = 0
       /\ IF Len(extracted) = 1
          THEN IsDuration(wpml_content.duration, distance, 5, 1, 1)
          ELSE IsDuration(wpml_content.duration, distance, speeds,
                          Len(extracted) - 1, Len(extracted))

\* C20 witness: a generated wayline of three waypoints, two segments of
\* positive length, whose mean speed (8 + 3) / 2 is not the first waypoint's
C20_Witness ==
  /\ WaylinesDone
  /\ Len(extracted) = 3
  /\ SpeedOf(extracted[1]) = 5
  /\ SpeedOf(extracted[2]) = 8
  /\ SpeedOf(extracted[3]) = 3
  /\ SegmentDistance(extracted[1], extracted[2]) > 0
  /\ SegmentDistance(extracted[2], extracted[3]) > 0
  /\ wpml_content.duration > 6

---------------------------------------------------------------------------
(* The values of the action record (SpecActions).                          *)

\* C21: whatever description keywords and vendor action tags a placemark holds,
\* the video_action extract_waypoint_actions returns is absent, 'start' or
\* 'stop', and no other value.
C21_VideoActionStartOrStop ==
  Returned(actions) => actions.video_action \in {None, Some("start"), Some("stop")}

\* int() takes white space around an optionally signed string of digits
ParsesAsInteger(s) == isdigit(Unsigned(Strip(s)))

IntegerValue(s) ==
  IF Char(Strip(s), 1) = "-" THEN 0 - int(Unsigned(Strip(s))) ELSE int(Unsigned(Strip(s)))

\* what a vendor action of the given kind and param attribute changes
ExpectedAction(kind, param) ==
  CASE kind = "ShootPhoto" -> [DefaultActions EXCEPT !.photo_action = Some("single")]
    [] kind = "Hovering" ->
         [DefaultActions EXCEPT !.hovering_time =
            IF ParsesAsInteger(param) THEN IntegerValue(param) ELSE 1000]
    [] kind = "StartRecord" -> [DefaultActions EXCEPT !.video_action = Some("start")]
    [] kind = "StopRecord" -> [DefaultActions EXCEPT !.video_action = Some("stop")]
    [] OTHER -> DefaultActions

\* the placemark has the vendor action e and nothing else that sets a field
OnlyAction(e) ==
  /\ placemark.description = None
  /\ e.tag = "actions"
  /\ \/ placemark.ns /\ placemark.extended = Some(<<e>>) /\ placemark.after = <<>>
     \/ /\ placemark.extended = None
        /\ placemark.after = <<e>>
        /\ e.text \notin {"StartRecord", "StopRecord"}

\* C22: a vendor action changes a field only when its kind is, letter for
\* letter, ShootPhoto, Hovering, StartRecord or StopRecord; for Hovering the
\* hovering_time is the integer value of the param attribute when that parses
\* as an integer, and 1000 when it does not.  (StartRecord and StopRecord
\* outside ExtendedData are the matter of C15.)
C22_ActionKindsAndHoverParam ==
  Returned(actions)
  => \A e \in ExtendedInputs \cup DirectInputs :
       OnlyAction(e) => actions = ExpectedAction(e.text, Attr(e.param, "0"))

---------------------------------------------------------------------------
(* The archives of a batch (Spec).                                         *)

\* the archives with the two documents that stand in the output directory
ProducedArchives ==
  {f \in DOMAIN fs :
     /\ fs[f].closed
     /\ EntryNames(fs[f]) = <<"wpmz/waylines.wpml", "wpmz/template.kml">>}

\* C23: at the end of batch_convert every file counted as successful has its
\* own archive in the output directory: no archive of a successful file was
\* overwritten by a later file, so there are at least as many archives as
\* successes, also when two base names differ only in denylisted characters.
C23_OneArchivePerSuccess ==
  (mode = "batch" /\ pc = "done") => Cardinality(ProducedArchives) >= successful

---------------------------------------------------------------------------
(* A failure of the generation (SpecConvert).                              *)

Generating == pc \in {"create_waylines", "create_template"}

\* C24: when the generation of either document raises (the mean speed of the
\* waypoints after the first is 0, say), convert_kml_to_wpml returns failure
\* and the output path is neither created nor modified: a generation step
\* touches no file, its exception ends the call with False, and the archive is
\* opened only when both documents exist.
C24_GenerationFailureLeavesOutput ==
  /\ [][Generating
        => /\ fs' = fs
           /\ pc' \in {"create_template", "open_archive", "returned"}
           /\ pc' = "returned" => result' = Some(FALSE)]_vars
  /\ [][fs' # fs => wpml_content # None /\ template_content # None]_vars
  /\ []((mode = "single" /\ pc = "returned" /\ template_content = None)
        => /\ result = Some(FALSE)
           /\ output_file \in DOMAIN fs => fs[output_file] = OldFile)

\* C24 witness: the wayline generation has raised ZeroDivisionError, the call
\* has returned False and the old archive is still at the output path
C24_Witness ==
  /\ mode = "single"
  /\ pc = "returned"
  /\ result = Some(FALSE)
  /\ Len(extracted) = 2
  /\ DivisionByZero(extracted)
  /\ wpml_content = None
  /\ fs = (output_file :> OldFile)

====
